---- MODULE Spec2Model ----
(***************************************************************************)
(* Model of libmachine/provision/atomichost.go: the AtomicHostProvisioner. *)
(* The provisioner drives a remote host through a blocking command         *)
(* channel (SSHCommand).  Every call of SSHCommand is one step of the      *)
(* model: the command is appended to the transcript `ssh` together with    *)
(* the error the transport returned for it.                                *)
(*                                                                         *)
(* Text is modelled as a sequence of words, so that fmt.Sprintf is         *)
(* concatenation and strings.Contains is a real sub-sequence search.       *)
(* An error is modelled by its message (what err.Error() returns), nil by  *)
(* the empty message.                                                      *)
(***************************************************************************)
EXTENDS Integers, Sequences, FiniteSets

VARIABLES
    ssh,                  \* transcript of the running call: <<[cmd, err], ...>>
    svcPc,                \* position inside Service
    svcName,              \* Service: parameter name
    svcAction,            \* Service: parameter action
    svcRet,               \* Service: returned error
    pkgPc,                \* position inside Package / upgrade
    pkgName,              \* Package: parameter name
    pkgAction,            \* Package: parameter action
    upgradeCommandOutput, \* upgrade: output captured from the upgrade command
    upgradeErr,           \* upgrade: err returned by the upgrade command
    pkgRet,               \* Package: returned error
    prevUpgrade,          \* summary of the previous completed upgrade run
    provPc,               \* position inside Provision
    SwarmOptions,         \* provisioner.SwarmOptions
    AuthOptions,          \* provisioner.AuthOptions
    EngineOptions,        \* provisioner.EngineOptions
    swarmOptions,         \* Provision: parameter swarmOptions (a copy local to the call)
    engineOptions,        \* Provision: parameter engineOptions
    authOptions,          \* Provision: parameter authOptions
    callerSwarmOptions,   \* Provision: the swarm options as the caller passed them
    swarmArg,             \* Provision: the swarm options handed to configureSwarm
    provSteps,            \* Provision: the steps invoked so far, <<[step, err], ...>>
    provRet,              \* Provision: returned error
    renders,              \* the calls of GenerateDockerOptions since Provision was entered
    heap,                 \* two runs: the backing arrays of the label slices
    callerLabels,         \* two runs: Labels of the EngineOptions the caller holds
    runPc,                \* two runs: position of each run
    runLabels,            \* two runs: provisioner.EngineOptions.Labels of each run
    runCalls,             \* two runs: calls of GenerateDockerOptions made by each run
    runText               \* two runs: the labels each run rendered last

svcVars == <<svcPc, svcName, svcAction, svcRet>>
pkgVars == <<pkgPc, pkgName, pkgAction, upgradeCommandOutput, upgradeErr, pkgRet, prevUpgrade>>
provVars == <<provPc, SwarmOptions, AuthOptions, EngineOptions, swarmOptions, engineOptions,
              authOptions, callerSwarmOptions, swarmArg, provSteps, provRet>>
renderVars == <<renders>>
runVars == <<heap, callerLabels, runPc, runLabels, runCalls, runText>>
vars == <<ssh, svcVars, pkgVars, provVars, renderVars, runVars>>

-----------------------------------------------------------------------------
(* Errors and the transport *)

Nil == <<>>

\* err.Error() of an *exec.ExitError / ssh exit error: "exit status <n>"
ExitStatus(n) == <<"exit status", n>>

\* What the transport can return for a command: success or a failure status.
TransportErrors == {ExitStatus("1"), ExitStatus("77"), ExitStatus("255")}
TransportResults == {Nil} \cup TransportErrors

\* provisioner.SSHCommand(cmd) returning err: the transcript after the call.
SSHCommand(cmd, err) == Append(ssh, [cmd |-> cmd, err |-> err])

Commands == [i \in 1..Len(ssh) |-> ssh[i].cmd]

-----------------------------------------------------------------------------
(* Service *)

ServiceNames == {"docker", "sshd", "etcd", "flanneld", "kubelet"}
ServiceActions == {"Restart", "Start", "Stop"}

\* serviceaction.ServiceAction.String()
ActionString(action) ==
    CASE action = "Restart" -> "restart"
      [] action = "Start"   -> "start"
      [] action = "Stop"    -> "stop"

DaemonReloadCommand == <<"sudo", "systemctl", "daemon-reload">>

\* fmt.Sprintf("sudo systemctl %s %s", action.String(), name)
ServiceCommand(action, name) == <<"sudo", "systemctl", ActionString(action), name>>

\* a switch that forgets the Restart case
reloadDaemon_OnlyStart(action) == action = "Start"

\* the switch of lines 87-91
reloadDaemon(action) == action \in {"Start", "Restart"}

\* one logical thread of control: no operation of the provisioner is running
Idle == svcPc = "idle" /\ pkgPc = "idle" /\ provPc = "idle"

\* Service is entered: lines 86-91.
Service(name, action) ==
    /\ Idle
    /\ svcName' = name
    /\ svcAction' = action
    /\ svcRet' = Nil
    /\ ssh' = <<>>
    /\ svcPc' = IF reloadDaemon(action) THEN "reload" ELSE "action"
    /\ UNCHANGED <<pkgVars, provVars, renderVars, runVars>>

\* the reload's error is dropped
ReloadFailed_Never(err) == FALSE

\* line 96: `err != nil` after the daemon-reload command
ReloadFailed(err) == err # Nil

\* lines 95-99: the daemon-reload command, and the return on its failure.
ServiceReload(err) ==
    /\ svcPc = "reload"
    /\ ssh' = SSHCommand(DaemonReloadCommand, err)
    /\ IF ReloadFailed(err)
         THEN svcRet' = err /\ svcPc' = "done"
         ELSE svcRet' = svcRet /\ svcPc' = "action"
    /\ UNCHANGED <<svcName, svcAction, pkgVars, provVars, renderVars, runVars>>

\* lines 101-107: the action command, and the return.
ServiceRun(err) ==
    /\ svcPc = "action"
    /\ ssh' = SSHCommand(ServiceCommand(svcAction, svcName), err)
    /\ svcRet' = IF err # Nil THEN err ELSE Nil
    /\ svcPc' = "done"
    /\ UNCHANGED <<svcName, svcAction, pkgVars, provVars, renderVars, runVars>>

\* the caller has received Service's result.
ServiceReturn ==
    /\ svcPc = "done"
    /\ svcPc' = "idle"
    /\ svcName' = ""
    /\ svcAction' = ""
    /\ svcRet' = Nil
    /\ ssh' = <<>>
    /\ UNCHANGED <<pkgVars, provVars, renderVars, runVars>>

-----------------------------------------------------------------------------
(* Package and upgrade *)

PackageNames == {"docker", "curl"}
PackageActions == {"Install", "Remove", "Upgrade"}

MaxOutLen == 4

\* the words the remote upgrade tool's output is made of
OutputWords == {"No", "upgrade", "available.", "Updating"}
Outputs == UNION {[1..n -> OutputWords] : n \in 0..MaxOutLen}

\* strings.Contains(s, substr)
Contains(s, substr) ==
    \E i \in 0..(Len(s) - Len(substr)) : SubSeq(s, i + 1, i + Len(substr)) = substr

UpgradeCommand == <<"sudo", "atomic", "host", "upgrade">>
RebootCommand == <<"sudo", "reboot">>

\* the string literal of line 177
NoUpgradeMarker == <<"No", "upgrade", "available.">>

\* the sentinel is compared with another status
IsNoChanges_WrongCode(err) == err = <<"exit status", "1">>

\* the sentinel case is missing
IsNoChanges_Never(err) == FALSE

\* lines 164-169: switch err.Error() { case "exit status 77": ... }
IsNoChanges(err) == err = <<"exit status", "77">>

\* the output is compared with the marker instead of searched for it
NoUpgradeAvailable_Exact(out) == out = NoUpgradeMarker

\* line 177: strings.Contains(upgradeCommandOutput, "No upgrade available.")
NoUpgradeAvailable(out) == Contains(out, NoUpgradeMarker)

\* the reboot command's error is returned
RebootResult_Propagate(err) == err

\* lines 181-185: the reboot command's error is ignored, upgrade returns nil.
RebootResult(err) == Nil

\* what a completed upgrade run was answered and what it did
NoRun == [ran |-> FALSE, err |-> Nil, marker |-> FALSE, ret |-> Nil, cmds |-> <<>>]

\* the package name is not looked at
Package_AnyName(name, action) ==
    /\ Idle
    /\ pkgName' = name
    /\ pkgAction' = action
    /\ pkgRet' = Nil
    /\ ssh' = <<>>
    /\ upgradeCommandOutput' = <<>>
    /\ upgradeErr' = Nil
    /\ pkgPc' = IF action = "Upgrade" THEN "upgrade" ELSE "done"
    /\ UNCHANGED <<prevUpgrade, svcVars, provVars, renderVars, runVars>>

\* Package is entered: lines 110-117.
Package(name, action) ==
    /\ Idle
    /\ pkgName' = name
    /\ pkgAction' = action
    /\ pkgRet' = Nil
    /\ ssh' = <<>>
    /\ upgradeCommandOutput' = <<>>
    /\ upgradeErr' = Nil
    /\ pkgPc' = IF name = "docker" /\ action = "Upgrade" THEN "upgrade" ELSE "done"
    /\ UNCHANGED <<prevUpgrade, svcVars, provVars, renderVars, runVars>>

\* the output is searched for the marker before the error is looked at
upgrade_MarkerFirst(out, err) ==
    /\ pkgPc = "upgrade"
    /\ ssh' = SSHCommand(UpgradeCommand, err)
    /\ upgradeCommandOutput' = out
    /\ upgradeErr' = err
    /\ IF NoUpgradeAvailable(out)
         THEN pkgRet' = Nil /\ pkgPc' = "done"
         ELSE IF err # Nil
                THEN /\ pkgRet' = IF IsNoChanges(err) THEN Nil ELSE err
                     /\ pkgPc' = "done"
                ELSE pkgRet' = pkgRet /\ pkgPc' = "reboot"
    /\ UNCHANGED <<pkgName, pkgAction, prevUpgrade, svcVars, provVars, renderVars, runVars>>

\* lines 158-180, 185: the upgrade command and the classification of its outcome.
upgrade(out, err) ==
    /\ pkgPc = "upgrade"
    /\ ssh' = SSHCommand(UpgradeCommand, err)
    /\ upgradeCommandOutput' = out
    /\ upgradeErr' = err
    /\ IF err # Nil
         THEN /\ pkgRet' = IF IsNoChanges(err) THEN Nil ELSE err
              /\ pkgPc' = "done"
         ELSE IF NoUpgradeAvailable(out)
                THEN pkgRet' = Nil /\ pkgPc' = "done"
                ELSE pkgRet' = pkgRet /\ pkgPc' = "reboot"
    /\ UNCHANGED <<pkgName, pkgAction, prevUpgrade, svcVars, provVars, renderVars, runVars>>

\* lines 180-185: the reboot command after a successful upgrade.
upgradeReboot(err) ==
    /\ pkgPc = "reboot"
    /\ ssh' = SSHCommand(RebootCommand, err)
    /\ pkgRet' = RebootResult(err)
    /\ pkgPc' = "done"
    /\ UNCHANGED <<pkgName, pkgAction, upgradeCommandOutput, upgradeErr, prevUpgrade, svcVars, provVars, renderVars, runVars>>

\* the caller has received Package's result; an upgrade run is remembered.
PackageReturn ==
    /\ pkgPc = "done"
    /\ pkgPc' = "idle"
    /\ prevUpgrade' = IF Len(ssh) > 0
                        THEN [ran |-> TRUE, err |-> upgradeErr,
                              marker |-> Contains(upgradeCommandOutput, NoUpgradeMarker),
                              ret |-> pkgRet, cmds |-> Commands]
                        ELSE prevUpgrade
    /\ pkgName' = ""
    /\ pkgAction' = ""
    /\ pkgRet' = Nil
    /\ ssh' = <<>>
    /\ upgradeCommandOutput' = <<>>
    /\ upgradeErr' = Nil
    /\ UNCHANGED <<svcVars, provVars, renderVars, runVars>>

-----------------------------------------------------------------------------
(* Provision *)

StorageDrivers == {"", "overlay", "btrfs", "devicemapper"}
LabelLists == {<<>>, <<"tier=web">>}
EngineEnvs == {<<>>, <<"HTTP_PROXY=http://proxy:3128">>}
SwarmEnvs == {<<>>, <<"SWARM_OPT=1">>}

EngineOptionsValues ==
    [StorageDriver : StorageDrivers, Labels : LabelLists, Env : EngineEnvs,
     InsecureRegistry : {<<>>}, RegistryMirror : {<<>>}, ArbitraryFlags : {<<>>}]
SwarmOptionsValues == [IsSwarm : BOOLEAN, Env : SwarmEnvs]

NoAuth == [CaCertRemotePath |-> "", ServerCertRemotePath |-> "", ServerKeyRemotePath |-> ""]
AuthOptionsValues ==
    {NoAuth,
     [CaCertRemotePath |-> "/old/ca.pem", ServerCertRemotePath |-> "/old/server.pem",
      ServerKeyRemotePath |-> "/old/server-key.pem"]}

NoEngine == [StorageDriver |-> "", Labels |-> <<>>, Env |-> <<>>, InsecureRegistry |-> <<>>,
             RegistryMirror |-> <<>>, ArbitraryFlags |-> <<>>]
NoSwarm == [IsSwarm |-> FALSE, Env |-> <<>>]

\* the steps that work on the remote host (the others are local computations)
RemoteSteps == {"SettingHostname", "PreparingOptionsDir", "ConfiguringAuth", "ConfiguringSwarm"}

\* what the collaborators can return
CollaboratorResults == TransportResults

\* setRemoteAuthOptions(provisioner): the remote paths of the certificates
setRemoteAuthOptions(auth) ==
    [auth EXCEPT !.CaCertRemotePath = "/etc/docker/ca.pem",
                 !.ServerCertRemotePath = "/etc/docker/server.pem",
                 !.ServerKeyRemotePath = "/etc/docker/server-key.pem"]

\* the default is missing
DefaultStorageDriver_Keep(sd) == sd

\* lines 125-126: an unset storage driver defaults to "overlay"
DefaultStorageDriver(sd) == IF sd = "" THEN "overlay" ELSE sd

\* the validation is missing
StorageDriverError_Never(sd) == Nil

\* lines 127-128: fmt.Errorf("Unsupported storage driver: %s", ...) or no error
StorageDriverError(sd) ==
    IF sd # "" /\ sd # "overlay" THEN <<"Unsupported storage driver:", sd>> ELSE Nil

\* a collaborator is invoked and answers err: it is logged as a step, and its
\* work on the remote host is one entry of the transcript.
Invoke(step, err) ==
    /\ provSteps' = Append(provSteps, [step |-> step, err |-> err])
    /\ ssh' = IF step \in RemoteSteps THEN SSHCommand(<<step>>, err) ELSE ssh

\* `if err := ...; err != nil { return err }`, otherwise on to the next step
ReturnOrGo(err, next) ==
    IF err # Nil
      THEN provRet' = err /\ provPc' = "done"
      ELSE provRet' = provRet /\ provPc' = next

\* the environment is not copied
SwarmEnvCopy_Missing(swarmOpts, engineOpts) == swarmOpts

\* line 123: swarmOptions.Env = engineOptions.Env, on the parameter of the call
SwarmEnvCopy(swarmOpts, engineOpts) == [swarmOpts EXCEPT !.Env = engineOpts.Env]

\* the environment is overwritten before the swarm options are stored
StoredSwarmOptions_AfterCopy(swarmOpts, engineOpts) == SwarmEnvCopy(swarmOpts, engineOpts)

\* line 120: provisioner.SwarmOptions = swarmOptions, before line 123
StoredSwarmOptions(swarmOpts, engineOpts) == swarmOpts

\* the storage driver is validated before the options are stored
Provision_ValidateFirst(swarmOpts, authOpts, engineOpts) ==
    /\ Idle
    /\ IF StorageDriverError(engineOpts.StorageDriver) # Nil
         THEN UNCHANGED <<SwarmOptions, AuthOptions, EngineOptions>>
         ELSE /\ SwarmOptions' = StoredSwarmOptions(swarmOpts, engineOpts)
              /\ AuthOptions' = authOpts
              /\ EngineOptions' =
                   [engineOpts EXCEPT
                      !.StorageDriver = DefaultStorageDriver(engineOpts.StorageDriver)]
    /\ swarmOptions' = SwarmEnvCopy(swarmOpts, engineOpts)
    /\ engineOptions' = engineOpts
    /\ authOptions' = authOpts
    /\ callerSwarmOptions' = swarmOpts
    /\ swarmArg' = NoSwarm
    /\ ssh' = <<>>
    /\ provSteps' = <<[step |-> "SettingStorageDriver",
                       err |-> StorageDriverError(engineOpts.StorageDriver)]>>
    /\ ReturnOrGo(StorageDriverError(engineOpts.StorageDriver), "SettingHostname")
    /\ renders' = <<>>
    /\ UNCHANGED <<svcVars, pkgVars, runVars>>

\* Provision is entered: lines 119-129, the options are stored and the
\* storage driver is resolved.
Provision(swarmOpts, authOpts, engineOpts) ==
    /\ Idle
    /\ SwarmOptions' = StoredSwarmOptions(swarmOpts, engineOpts)
    /\ AuthOptions' = authOpts
    /\ EngineOptions' =
         [engineOpts EXCEPT !.StorageDriver = DefaultStorageDriver(engineOpts.StorageDriver)]
    /\ swarmOptions' = SwarmEnvCopy(swarmOpts, engineOpts)
    /\ engineOptions' = engineOpts
    /\ authOptions' = authOpts
    /\ callerSwarmOptions' = swarmOpts
    /\ swarmArg' = NoSwarm
    /\ ssh' = <<>>
    /\ provSteps' = <<[step |-> "SettingStorageDriver",
                       err |-> StorageDriverError(engineOpts.StorageDriver)]>>
    /\ ReturnOrGo(StorageDriverError(engineOpts.StorageDriver), "SettingHostname")
    /\ renders' = <<>>
    /\ UNCHANGED <<svcVars, pkgVars, runVars>>

\* the options directory is not prepared
SetHostname_SkipsOptionsDir(err) ==
    /\ provPc = "SettingHostname"
    /\ Invoke("SettingHostname", err)
    /\ ReturnOrGo(err, "PreparingCertificates")
    /\ UNCHANGED <<SwarmOptions, AuthOptions, EngineOptions, swarmOptions, engineOptions,
                   authOptions, callerSwarmOptions, swarmArg, svcVars, pkgVars, renderVars, runVars>>

\* lines 131-134
SetHostname(err) ==
    /\ provPc = "SettingHostname"
    /\ Invoke("SettingHostname", err)
    /\ ReturnOrGo(err, "PreparingOptionsDir")
    /\ UNCHANGED <<SwarmOptions, AuthOptions, EngineOptions, swarmOptions, engineOptions,
                   authOptions, callerSwarmOptions, swarmArg, svcVars, pkgVars, renderVars, runVars>>

\* lines 136-139
makeDockerOptionsDir(err) ==
    /\ provPc = "PreparingOptionsDir"
    /\ Invoke("PreparingOptionsDir", err)
    /\ ReturnOrGo(err, "PreparingCertificates")
    /\ UNCHANGED <<SwarmOptions, AuthOptions, EngineOptions, swarmOptions, engineOptions,
                   authOptions, callerSwarmOptions, swarmArg, svcVars, pkgVars, renderVars, runVars>>

\* lines 141-142: provisioner.AuthOptions = setRemoteAuthOptions(provisioner)
PrepareCertificates ==
    /\ provPc = "PreparingCertificates"
    /\ Invoke("PreparingCertificates", Nil)
    /\ AuthOptions' = setRemoteAuthOptions(AuthOptions)
    /\ ReturnOrGo(Nil, "ConfiguringAuth")
    /\ UNCHANGED <<SwarmOptions, EngineOptions, swarmOptions, engineOptions, authOptions,
                   callerSwarmOptions, swarmArg, svcVars, pkgVars, renderVars, runVars>>

\* the error of ConfigureAuth is logged and not returned
ConfigureAuth_LogOnly(err) ==
    /\ provPc = "ConfiguringAuth"
    /\ Invoke("ConfiguringAuth", err)
    /\ ReturnOrGo(Nil, "ConfiguringSwarm")
    /\ UNCHANGED <<SwarmOptions, AuthOptions, EngineOptions, swarmOptions, engineOptions,
                   authOptions, callerSwarmOptions, swarmArg, svcVars, pkgVars, renderVars, runVars>>

\* lines 144-148
ConfigureAuth(err) ==
    /\ provPc = "ConfiguringAuth"
    /\ Invoke("ConfiguringAuth", err)
    /\ ReturnOrGo(err, "ConfiguringSwarm")
    /\ UNCHANGED <<SwarmOptions, AuthOptions, EngineOptions, swarmOptions, engineOptions,
                   authOptions, callerSwarmOptions, swarmArg, svcVars, pkgVars, renderVars, runVars>>

\* lines 150-155: configureSwarm(provisioner, swarmOptions, provisioner.AuthOptions)
configureSwarm(err) ==
    /\ provPc = "ConfiguringSwarm"
    /\ Invoke("ConfiguringSwarm", err)
    /\ swarmArg' = swarmOptions
    /\ ReturnOrGo(err, "done")
    /\ UNCHANGED <<SwarmOptions, AuthOptions, EngineOptions, swarmOptions, engineOptions,
                   authOptions, callerSwarmOptions, svcVars, pkgVars, renderVars, runVars>>

\* the caller has received Provision's result; the provisioner keeps its fields.
ProvisionReturn ==
    /\ provPc = "done"
    /\ provPc' = "idle"
    /\ swarmOptions' = NoSwarm
    /\ engineOptions' = NoEngine
    /\ authOptions' = NoAuth
    /\ swarmArg' = NoSwarm
    /\ provSteps' = <<>>
    /\ provRet' = Nil
    /\ ssh' = <<>>
    /\ UNCHANGED <<SwarmOptions, AuthOptions, EngineOptions, callerSwarmOptions, svcVars, pkgVars,
                   renderVars, runVars>>

-----------------------------------------------------------------------------
(* GenerateDockerOptions *)

MaxRenders == 2

DockerPorts == {2376, 2377}

\* {{.DockerPort}}: the decimal text of the port
PortString(dockerPort) ==
    CASE dockerPort = 2376 -> "2376"
      [] dockerPort = 2377 -> "2377"

\* provisioner.Driver.DriverName()
DriverName == "virtualbox"

\* fmt.Sprintf("provider=%s", name), for the driver names of the model
ProviderLabel(name) ==
    CASE name = "virtualbox" -> "provider=virtualbox"
      [] name = "amazonec2"  -> "provider=amazonec2"

\* line 47: fmt.Sprintf("provider=%s", provisioner.Driver.DriverName())
driverNameLabel == ProviderLabel(DriverName)

\* provisioner.DaemonOptionsFile
DaemonOptionsFile == "/etc/systemd/system/docker.service"

\* a range that would visit the list from its end
RangeOver_Reversed(prefix, xs) ==
    [k \in 1..(3 * Len(xs)) |->
        CASE k % 3 = 1 -> prefix
          [] k % 3 = 2 -> xs[Len(xs) - ((k - 1) \div 3)]
          [] OTHER -> " "]

\* {{ range xs }}prefix{{.}} {{ end }}
RECURSIVE RangeOver(_, _)
RangeOver(prefix, xs) ==
    IF xs = <<>> THEN <<>> ELSE <<prefix, Head(xs), " ">> \o RangeOver(prefix, Tail(xs))

\* line 61: {{range .EngineOptions.Env}}{{ printf "%q" . }} {{end}}
RECURSIVE RangeQuoted(_)
RangeQuoted(xs) ==
    IF xs = <<>> THEN <<>> ELSE <<"\"", Head(xs), "\"", " ">> \o RangeQuoted(Tail(xs))

\* lines 50-65 executed on the context of lines 71-75: the unit file as the
\* sequence of its pieces, the literal text of the template and the values.
EngineConfig(dockerPort, auth, engine) ==
    <<"[Unit]\nDescription=Docker Application Container Engine\nDocumentation=http://docs.docker.com\nAfter=network.target\n\n[Service]\nExecStart=/usr/bin/docker -d -H tcp://0.0.0.0:",
      PortString(dockerPort),
      " -H unix:///var/run/docker.sock --storage-driver ", engine.StorageDriver,
      " --tlsverify --tlscacert ", auth.CaCertRemotePath,
      " --tlscert ", auth.ServerCertRemotePath,
      " --tlskey ", auth.ServerKeyRemotePath, " ">>
    \o RangeOver("--label ", engine.Labels)
    \o RangeOver("--insecure-registry ", engine.InsecureRegistry)
    \o RangeOver("--registry-mirror ", engine.RegistryMirror)
    \o RangeOver("--", engine.ArbitraryFlags)
    \o <<"\nMountFlags=slave\nLimitNOFILE=1048576\nLimitNPROC=1048576\nLimitCORE=infinity\nEnvironment=">>
    \o RangeQuoted(engine.Env)
    \o <<"\n\n[Install]\nWantedBy=multi-user.target\n">>

\* what template.Parse and Template.Execute can return
ParseResults == {Nil, <<"template: engineConfig:", "parse error">>}
ExecuteResults == {Nil, <<"template: engineConfig:", "error executing">>}

\* the pieces Execute has written to engineCfg when it stops with an error
WrittenOnError(text) == {0, 1, Len(text) - 1}

NilDockerOptions == [isNil |-> TRUE, EngineOptions |-> <<>>, EngineOptionsPath |-> ""]

\* GenerateDockerOptions, lines 42-84.  parseErr and execErr are what Parse and
\* Execute return; when Execute fails, engineCfg holds what it had written.
\* It is called by ConfigureAuth during a run, or by any caller between runs.
GenerateDockerOptions(dockerPort, parseErr, execErr) ==
    /\ svcPc = "idle" /\ pkgPc = "idle" /\ provPc \in {"idle", "ConfiguringAuth"}
    /\ Len(renders) < MaxRenders
    /\ LET labels == Append(EngineOptions.Labels, driverNameLabel)
           engine == [EngineOptions EXCEPT !.Labels = labels]
           text == EngineConfig(dockerPort, AuthOptions, engine)
       IN \E written \in (IF execErr = Nil THEN {Len(text)} ELSE WrittenOnError(text)) :
            LET engineCfg == SubSeq(text, 1, written)
            IN /\ EngineOptions' = engine
               /\ renders' = Append(renders,
                    IF parseErr # Nil
                      THEN [dockerPort |-> dockerPort, parseErr |-> parseErr, execErr |-> Nil,
                            result |-> NilDockerOptions, err |-> parseErr]
                      ELSE [dockerPort |-> dockerPort, parseErr |-> Nil, execErr |-> execErr,
                            result |-> [isNil |-> FALSE, EngineOptions |-> engineCfg,
                                        EngineOptionsPath |-> DaemonOptionsFile],
                            err |-> Nil])
    /\ UNCHANGED <<ssh, svcVars, pkgVars, provPc, SwarmOptions, AuthOptions, swarmOptions,
                   engineOptions, authOptions, callerSwarmOptions, swarmArg, provSteps, provRet,
                   runVars>>

-----------------------------------------------------------------------------
(* Two provisioning runs started from one EngineOptions value *)

MaxSpare == 1

Provisioners == {1, 2}

\* provisioner.Driver.DriverName() of the two provisioners
RunDriverName(i) == IF i = 1 THEN "virtualbox" ELSE "amazonec2"

\* A Go slice is a view [arr, len, cap] of a backing array heap[arr];
\* assigning a struct that holds a slice copies the view, not the array.
NilSlice == [arr |-> 0, len |-> 0, cap |-> 0]

View(h, sl) == IF sl.len = 0 THEN <<>> ELSE SubSeq(h[sl.arr], 1, sl.len)

\* a backing array for the elements xs with room for cap elements
NewArray(xs, cap) == [k \in 1..cap |-> IF k <= Len(xs) THEN xs[k] ELSE ""]

\* the capacity append gives a slice that has outgrown its array
GrownCap(cap) == IF cap = 0 THEN 1 ELSE 2 * cap

\* append(sl, x), the heap after it: the element is written in place when the
\* array has room, and into a new array otherwise
AppendHeap(h, sl, x) ==
    IF sl.len < sl.cap
      THEN [h EXCEPT ![sl.arr][sl.len + 1] = x]
      ELSE Append(h, NewArray(Append(View(h, sl), x), GrownCap(sl.cap)))

\* append(sl, x), the slice it returns
AppendSlice(h, sl, x) ==
    IF sl.len < sl.cap
      THEN [sl EXCEPT !.len = sl.len + 1]
      ELSE [arr |-> Len(h) + 1, len |-> sl.len + 1, cap |-> GrownCap(sl.cap)]

\* line 122 in run i: provisioner.EngineOptions = engineOptions
RunProvision(i) ==
    /\ runPc[i] = "idle"
    /\ runLabels' = [runLabels EXCEPT ![i] = callerLabels]
    /\ runPc' = [runPc EXCEPT ![i] = "render"]
    /\ UNCHANGED <<heap, callerLabels, runCalls, runText>>
    /\ UNCHANGED <<ssh, svcVars, pkgVars, provVars, renderVars>>

\* lines 47-48 in run i: the provider label is appended to the stored labels
RunAppendLabel(i) ==
    /\ runPc[i] = "render"
    /\ runCalls[i] < MaxRenders
    /\ heap' = AppendHeap(heap, runLabels[i], ProviderLabel(RunDriverName(i)))
    /\ runLabels' = [runLabels EXCEPT
                       ![i] = AppendSlice(heap, runLabels[i], ProviderLabel(RunDriverName(i)))]
    /\ runCalls' = [runCalls EXCEPT ![i] = runCalls[i] + 1]
    /\ runPc' = [runPc EXCEPT ![i] = "execute"]
    /\ UNCHANGED <<callerLabels, runText>>
    /\ UNCHANGED <<ssh, svcVars, pkgVars, provVars, renderVars>>

\* lines 71-81 in run i: the template is executed on the stored labels
RunExecute(i) ==
    /\ runPc[i] = "execute"
    /\ runText' = [runText EXCEPT ![i] = RangeOver("--label ", View(heap, runLabels[i]))]
    /\ runPc' = [runPc EXCEPT ![i] = "render"]
    /\ UNCHANGED <<heap, callerLabels, runLabels, runCalls>>
    /\ UNCHANGED <<ssh, svcVars, pkgVars, provVars, renderVars>>

\* no run of the two-run scenario has been started
NoRuns ==
    /\ heap = <<>>
    /\ callerLabels = NilSlice
    /\ runPc = [i \in Provisioners |-> "idle"]
    /\ runLabels = [i \in Provisioners |-> NilSlice]
    /\ runCalls = [i \in Provisioners |-> 0]
    /\ runText = [i \in Provisioners |-> <<>>]

-----------------------------------------------------------------------------

Init ==
    /\ ssh = <<>>
    /\ svcPc = "idle"
    /\ svcName = ""
    /\ svcAction = ""
    /\ svcRet = Nil
    /\ pkgPc = "idle"
    /\ pkgName = ""
    /\ pkgAction = ""
    /\ upgradeCommandOutput = <<>>
    /\ upgradeErr = Nil
    /\ pkgRet = Nil
    /\ prevUpgrade = NoRun
    /\ provPc = "idle"
    /\ SwarmOptions = NoSwarm
    /\ AuthOptions = NoAuth
    /\ EngineOptions = NoEngine
    /\ swarmOptions = NoSwarm
    /\ engineOptions = NoEngine
    /\ authOptions = NoAuth
    /\ callerSwarmOptions = NoSwarm
    /\ swarmArg = NoSwarm
    /\ provSteps = <<>>
    /\ renders = <<>>
    /\ NoRuns
    /\ provRet = Nil

NextService ==
    \/ \E name \in ServiceNames, action \in ServiceActions : Service(name, action)
    \/ \E err \in TransportResults : ServiceReload(err)
    \/ \E err \in TransportResults : ServiceRun(err)
    \/ ServiceReturn

SpecService == Init /\ [][NextService]_vars

NextUpgrade ==
    \/ \E name \in PackageNames, action \in PackageActions : Package(name, action)
    \/ \E out \in Outputs, err \in TransportResults : upgrade(out, err)
    \/ \E err \in TransportResults : upgradeReboot(err)
    \/ PackageReturn

SpecUpgrade == Init /\ [][NextUpgrade]_vars

NextProvision ==
    \/ \E swarmOpts \in SwarmOptionsValues, authOpts \in AuthOptionsValues,
          engineOpts \in EngineOptionsValues : Provision(swarmOpts, authOpts, engineOpts)
    \/ \E err \in CollaboratorResults : SetHostname(err)
    \/ \E err \in CollaboratorResults : makeDockerOptionsDir(err)
    \/ PrepareCertificates
    \/ \E err \in CollaboratorResults : ConfigureAuth(err)
    \/ \E err \in CollaboratorResults : configureSwarm(err)
    \/ ProvisionReturn

SpecProvision == Init /\ [][NextProvision]_vars

\* The options Provision is given in the runs in which rendering is examined.
RenderLabelLists == {<<>>, <<"tier=web">>, <<"tier=web", "zone=a">>}
RenderInsecureRegistries == {<<>>, <<"reg1:5000">>, <<"reg2:5000", "reg1:5000">>}
RenderRegistryMirrors == {<<>>, <<"http://m1">>, <<"http://m1", "http://m2">>}
RenderArbitraryFlags == {<<>>, <<"debug">>, <<"icc=false", "debug">>}
RenderEngineOptions ==
    [StorageDriver : {"", "overlay"}, Labels : RenderLabelLists, Env : EngineEnvs,
     InsecureRegistry : RenderInsecureRegistries, RegistryMirror : RenderRegistryMirrors,
     ArbitraryFlags : RenderArbitraryFlags]

\* A provisioning run that has reached ConfigureAuth, the step that renders
\* the unit file: the state Provision, SetHostname, makeDockerOptionsDir and
\* PrepareCertificates leave when none of them fails.
InitRender ==
    /\ svcPc = "idle"
    /\ svcName = ""
    /\ svcAction = ""
    /\ svcRet = Nil
    /\ pkgPc = "idle"
    /\ pkgName = ""
    /\ pkgAction = ""
    /\ upgradeCommandOutput = <<>>
    /\ upgradeErr = Nil
    /\ pkgRet = Nil
    /\ prevUpgrade = NoRun
    /\ \E engineOpts \in RenderEngineOptions :
         /\ engineOptions = engineOpts
         /\ EngineOptions =
              [engineOpts EXCEPT !.StorageDriver = DefaultStorageDriver(engineOpts.StorageDriver)]
         /\ swarmOptions = SwarmEnvCopy(NoSwarm, engineOpts)
    /\ callerSwarmOptions = NoSwarm
    /\ SwarmOptions = NoSwarm
    /\ authOptions = NoAuth
    /\ AuthOptions = setRemoteAuthOptions(NoAuth)
    /\ swarmArg = NoSwarm
    /\ provPc = "ConfiguringAuth"
    /\ provRet = Nil
    /\ provSteps = <<[step |-> "SettingStorageDriver", err |-> Nil],
                     [step |-> "SettingHostname", err |-> Nil],
                     [step |-> "PreparingOptionsDir", err |-> Nil],
                     [step |-> "PreparingCertificates", err |-> Nil]>>
    /\ ssh = <<[cmd |-> <<"SettingHostname">>, err |-> Nil],
               [cmd |-> <<"PreparingOptionsDir">>, err |-> Nil]>>
    /\ renders = <<>>
    /\ NoRuns

NextRender ==
    \E dockerPort \in DockerPorts, parseErr \in ParseResults, execErr \in ExecuteResults :
        GenerateDockerOptions(dockerPort, parseErr, execErr)

SpecRender == InitRender /\ [][NextRender]_vars

\* Two provisioners are about to be provisioned with the EngineOptions value
\* one caller holds; its label slice may have spare capacity.
InitRuns ==
    /\ ssh = <<>>
    /\ svcPc = "idle"
    /\ svcName = ""
    /\ svcAction = ""
    /\ svcRet = Nil
    /\ pkgPc = "idle"
    /\ pkgName = ""
    /\ pkgAction = ""
    /\ upgradeCommandOutput = <<>>
    /\ upgradeErr = Nil
    /\ pkgRet = Nil
    /\ prevUpgrade = NoRun
    /\ provPc = "idle"
    /\ SwarmOptions = NoSwarm
    /\ AuthOptions = NoAuth
    /\ EngineOptions = NoEngine
    /\ swarmOptions = NoSwarm
    /\ engineOptions = NoEngine
    /\ authOptions = NoAuth
    /\ callerSwarmOptions = NoSwarm
    /\ swarmArg = NoSwarm
    /\ provSteps = <<>>
    /\ provRet = Nil
    /\ renders = <<>>
    /\ \E labels \in LabelLists, spare \in 0..MaxSpare :
         /\ heap = <<NewArray(labels, Len(labels) + spare)>>
         /\ callerLabels = [arr |-> 1, len |-> Len(labels), cap |-> Len(labels) + spare]
    /\ runPc = [i \in Provisioners |-> "idle"]
    /\ runLabels = [i \in Provisioners |-> NilSlice]
    /\ runCalls = [i \in Provisioners |-> 0]
    /\ runText = [i \in Provisioners |-> <<>>]

NextRuns ==
    \/ \E i \in Provisioners : RunProvision(i)
    \/ \E i \in Provisioners : RunAppendLabel(i)
    \/ \E i \in Provisioners : RunExecute(i)

SpecRuns == InitRuns /\ [][NextRuns]_vars

\* The whole provisioner.  Its operations run one at a time (Idle) and share
\* only the transcript, which every call starts afresh, so the properties of
\* each operation are checked under the specification of that operation.
Next == NextService \/ NextUpgrade \/ NextProvision \/ NextRender

Spec == Init /\ [][Next]_vars

-----------------------------------------------------------------------------
(* Properties of Service *)

IsPrefix(s, t) == Len(s) <= Len(t) /\ SubSeq(t, 1, Len(s)) = s

ReloadText == <<"sudo", "systemctl", "daemon-reload">>
ActionText ==
    <<"sudo", "systemctl",
      CASE svcAction = "Start" -> "start"
        [] svcAction = "Restart" -> "restart"
        [] svcAction = "Stop" -> "stop"
        [] OTHER -> "",
      svcName>>
ExpectedServiceCommands ==
    IF svcAction \in {"Start", "Restart"} THEN <<ReloadText, ActionText>> ELSE <<ActionText>>

\* C1: Service(name, Start) and Service(name, Restart) issue the daemon-reload
\* command first and "systemctl <action> <name>" second, and nothing else;
\* Service(name, Stop) issues the stop command alone.  At every point of a call
\* the commands issued so far are a prefix of that list; a call whose commands
\* all succeeded has issued the whole list, and a call that ends earlier ended
\* on the failed reload.
C1_ServiceCommandOrder ==
    svcPc # "idle" =>
        /\ IsPrefix(Commands, ExpectedServiceCommands)
        /\ svcPc = "done" =>
             \/ Commands = ExpectedServiceCommands
             \/ /\ Commands = <<ReloadText>>
                /\ svcAction \in {"Start", "Restart"}
                /\ ssh[1].err # Nil

C1_Witness ==
    /\ svcPc = "done"
    /\ svcAction = "Start"
    /\ svcName = "docker"
    /\ Commands = <<ReloadText, <<"sudo", "systemctl", "start", "docker">>>>

\* C2: in Service a failed daemon-reload is the last command issued and its
\* error is what Service returns; otherwise Service returns the error of the
\* action command; Service returns nil only if every command it issued
\* succeeded.
C2_ServiceErrors ==
    /\ \A i \in 1..Len(ssh) : svcPc # "idle" /\ i < Len(ssh) => ssh[i].err = Nil
    /\ svcPc = "done" =>
         /\ Len(ssh) >= 1
         /\ svcRet = ssh[Len(ssh)].err
         /\ (svcRet = Nil <=> \A i \in 1..Len(ssh) : ssh[i].err = Nil)
         /\ (svcAction \in {"Start", "Restart"} /\ ssh[1].err # Nil =>
               Len(ssh) = 1 /\ ssh[1].cmd = ReloadText /\ svcRet = ssh[1].err)

C2_Witness ==
    /\ svcPc = "done"
    /\ svcAction = "Restart"
    /\ Len(ssh) = 1
    /\ ssh[1].cmd = ReloadText
    /\ ssh[1].err = <<"exit status", "1">>
    /\ svcRet = <<"exit status", "1">>

-----------------------------------------------------------------------------
(* Properties of upgrade *)

UpgradeText == <<"sudo", "atomic", "host", "upgrade">>
RebootText == <<"sudo", "reboot">>
Status77 == <<"exit status", "77">>

\* the output has the words "No upgrade available." somewhere
HasMarker(out) ==
    \E i \in 1..Len(out) :
        /\ i + 2 <= Len(out)
        /\ out[i] = "No"
        /\ out[i + 1] = "upgrade"
        /\ out[i + 2] = "available."

\* the upgrade command of the running Package call has been answered
UpgradeAnswered == pkgPc # "idle" /\ Len(ssh) >= 1

Rebooted(cmds) == \E i \in 1..Len(cmds) : cmds[i] = RebootText

\* C3: when the upgrade command fails with exit status 77, upgrade returns
\* nil, and the upgrade command is the only command issued (no reboot).
C3_NoChangesStatus ==
    UpgradeAnswered /\ upgradeErr = Status77 =>
        /\ pkgPc = "done"
        /\ pkgRet = Nil
        /\ Commands = <<UpgradeText>>

C3_Witness ==
    /\ UpgradeAnswered
    /\ pkgPc = "done"
    /\ upgradeErr = Status77
    /\ ~HasMarker(upgradeCommandOutput)
    /\ pkgRet = Nil

\* C4: when the upgrade command succeeds and its output contains
\* "No upgrade available.", upgrade returns nil and issues no reboot.
C4_NoUpgradeMarker ==
    UpgradeAnswered /\ upgradeErr = Nil /\ HasMarker(upgradeCommandOutput) =>
        /\ pkgPc = "done"
        /\ pkgRet = Nil
        /\ ~Rebooted(Commands)

C4_Witness ==
    /\ UpgradeAnswered
    /\ pkgPc = "done"
    /\ upgradeErr = Nil
    /\ upgradeCommandOutput = <<"Updating", "No", "upgrade", "available.">>
    /\ Commands = <<UpgradeText>>

\* C5: when the upgrade command succeeds and its output does not contain the
\* marker, upgrade issues exactly one reboot command, after the upgrade
\* command, and returns nil whatever the reboot command returned.
C5_RebootAfterUpgrade ==
    UpgradeAnswered /\ upgradeErr = Nil /\ ~HasMarker(upgradeCommandOutput) =>
        /\ pkgPc \in {"reboot", "done"}
        /\ pkgPc = "reboot" => Commands = <<UpgradeText>>
        /\ pkgPc = "done" => Commands = <<UpgradeText, RebootText>> /\ pkgRet = Nil

C5_Witness ==
    /\ pkgPc = "done"
    /\ upgradeErr = Nil
    /\ upgradeCommandOutput = <<"No", "upgrade", "Updating", "available.">>
    /\ Commands = <<UpgradeText, RebootText>>
    /\ ssh[2].err = <<"exit status", "255">>
    /\ pkgRet = Nil

\* C6: when the upgrade command fails with a status other than 77, upgrade
\* returns that error and issues no reboot, whatever the output holds.
C6_OtherFailure ==
    UpgradeAnswered /\ upgradeErr # Nil /\ upgradeErr # Status77 =>
        /\ pkgPc = "done"
        /\ pkgRet = upgradeErr
        /\ Commands = <<UpgradeText>>

C6_Witness ==
    /\ UpgradeAnswered
    /\ pkgPc = "done"
    /\ upgradeErr = <<"exit status", "1">>
    /\ HasMarker(upgradeCommandOutput)
    /\ pkgRet = <<"exit status", "1">>

NoOpSignalled(err, marker) == err = Status77 \/ (err = Nil /\ marker)

\* C7: when two upgrade runs in a row are both answered with a no-op signal
\* (exit status 77, or success with the marker in the output), both return
\* nil and neither issues a reboot.
C7_NoOpIdempotent ==
    /\ prevUpgrade.ran
    /\ NoOpSignalled(prevUpgrade.err, prevUpgrade.marker)
    /\ UpgradeAnswered
    /\ NoOpSignalled(upgradeErr, HasMarker(upgradeCommandOutput))
    => /\ prevUpgrade.ret = Nil
       /\ ~Rebooted(prevUpgrade.cmds)
       /\ pkgPc = "done"
       /\ pkgRet = Nil
       /\ ~Rebooted(Commands)

C7_Witness ==
    /\ prevUpgrade.ran
    /\ prevUpgrade.err = Nil
    /\ prevUpgrade.marker
    /\ prevUpgrade.ret = Nil
    /\ prevUpgrade.cmds = <<UpgradeText>>
    /\ pkgPc = "done"
    /\ upgradeErr = Status77
    /\ pkgRet = Nil
    /\ Commands = <<UpgradeText>>

\* C11: Package(name, action) runs the upgrade workflow if and only if name is
\* "docker" and action is Upgrade; every other call is over at once, returns
\* nil and has issued no remote command.
C11_PackageDispatch ==
    pkgPc # "idle" =>
        IF pkgName = "docker" /\ pkgAction = "Upgrade"
          THEN \/ pkgPc = "upgrade" /\ ssh = <<>>
               \/ Len(ssh) >= 1 /\ ssh[1].cmd = UpgradeText
          ELSE pkgPc = "done" /\ pkgRet = Nil /\ ssh = <<>>

C11_Witness ==
    /\ pkgPc = "done"
    /\ pkgName = "curl"
    /\ pkgAction = "Upgrade"
    /\ pkgRet = Nil
    /\ ssh = <<>>

-----------------------------------------------------------------------------
(* Properties of Provision *)

StepNames == [i \in 1..Len(provSteps) |-> provSteps[i].step]

StepOrder == <<"SettingStorageDriver", "SettingHostname", "PreparingOptionsDir",
               "PreparingCertificates", "ConfiguringAuth", "ConfiguringSwarm">>

\* C8: Provision with a storage driver that is set and is not "overlay" returns
\* the validation error at once: nothing is done on the remote host and no
\* step after the storage-driver resolution is invoked.
C8_UnsupportedStorageDriver ==
    provPc # "idle" /\ engineOptions.StorageDriver \notin {"", "overlay"} =>
        /\ provPc = "done"
        /\ provRet = <<"Unsupported storage driver:", engineOptions.StorageDriver>>
        /\ ssh = <<>>
        /\ StepNames = <<"SettingStorageDriver">>

C8_Witness ==
    /\ provPc = "done"
    /\ engineOptions.StorageDriver = "btrfs"
    /\ provRet = <<"Unsupported storage driver:", "btrfs">>
    /\ ssh = <<>>

\* the transcript a run leaves when each remote step it invoked stays applied
AppliedSteps ==
    LET RECURSIVE Pick(_)
        Pick(n) == IF n = 0 THEN <<>>
                   ELSE IF provSteps[n].step \in
                             {"SettingHostname", "PreparingOptionsDir", "ConfiguringAuth",
                              "ConfiguringSwarm"}
                          THEN Append(Pick(n - 1), <<provSteps[n].step>>)
                          ELSE Pick(n - 1)
    IN Pick(Len(provSteps))

\* C9: Provision is fail-fast.  A step that returned an error is the last step
\* invoked, the run is over and returns that error; no step is invoked twice;
\* and the remote host keeps the work of every step invoked (nothing is undone).
C9_FailFast ==
    provPc # "idle" =>
        /\ \A i \in 1..Len(provSteps) :
             provSteps[i].err # Nil =>
                 /\ i = Len(provSteps)
                 /\ provPc = "done"
                 /\ provRet = provSteps[i].err
        /\ \A i, j \in 1..Len(provSteps) : provSteps[i].step = provSteps[j].step => i = j
        /\ Commands = AppliedSteps

C9_Witness ==
    /\ provPc = "done"
    /\ Len(provSteps) = 5
    /\ provSteps[5] = [step |-> "ConfiguringAuth", err |-> <<"exit status", "1">>]
    /\ provRet = <<"exit status", "1">>
    /\ Commands = <<<<"SettingHostname">>, <<"PreparingOptionsDir">>, <<"ConfiguringAuth">>>>

\* C10: a Provision run that returns nil has invoked each step once, in the
\* order storage driver, hostname, options directory, certificates, auth,
\* swarm; and in every run the steps invoked so far are a prefix of that order
\* in which every step but the last has succeeded.
C10_StepOrder ==
    provPc # "idle" =>
        /\ IsPrefix(StepNames, StepOrder)
        /\ \A i \in 1..Len(provSteps) : i < Len(provSteps) => provSteps[i].err = Nil
        /\ provPc = "done" /\ provRet = Nil =>
             /\ StepNames = StepOrder
             /\ \A i \in 1..Len(provSteps) : provSteps[i].err = Nil

C10_Witness ==
    /\ provPc = "done"
    /\ provRet = Nil
    /\ StepNames = StepOrder
    /\ Len(ssh) = 4

Invoked(step) == \E i \in 1..Len(provSteps) : provSteps[i].step = step

\* C15: an unset storage driver is defaulted to "overlay" and the run goes on;
\* whenever a collaborator step (hostname onward) has been invoked, the stored
\* storage driver is "overlay".
C15_StorageDriverResolved ==
    provPc # "idle" =>
        /\ engineOptions.StorageDriver = "" =>
             /\ EngineOptions.StorageDriver = "overlay"
             /\ provSteps[1].err = Nil
             /\ provPc = "done" => Len(provSteps) >= 2
        /\ Len(provSteps) >= 2 => EngineOptions.StorageDriver = "overlay"

C15_Witness ==
    /\ provPc = "PreparingOptionsDir"
    /\ engineOptions.StorageDriver = ""
    /\ Invoked("SettingHostname")
    /\ EngineOptions.StorageDriver = "overlay"

\* C16: the swarm options handed to configureSwarm carry the environment of
\* the EngineOptions passed to Provision (the rest is the caller's), and the
\* stored EngineOptions keep that environment.
C16_SwarmEnvironment ==
    Invoked("ConfiguringSwarm") =>
        /\ swarmArg.Env = engineOptions.Env
        /\ swarmArg.IsSwarm = callerSwarmOptions.IsSwarm
        /\ EngineOptions.Env = engineOptions.Env

C16_Witness ==
    /\ Invoked("ConfiguringSwarm")
    /\ callerSwarmOptions.Env = <<"SWARM_OPT=1">>
    /\ engineOptions.Env = <<"HTTP_PROXY=http://proxy:3128">>
    /\ swarmArg.Env = <<"HTTP_PROXY=http://proxy:3128">>
    /\ EngineOptions.Env = <<"HTTP_PROXY=http://proxy:3128">>

\* C19: the provisioner stores the swarm options as the caller passed them; the
\* environment is overwritten only on the copy local to the call, so during
\* and after every run the stored SwarmOptions have the caller's environment.
C19_StoredSwarmOptions ==
    /\ SwarmOptions = callerSwarmOptions
    /\ provPc # "idle" => swarmOptions.Env = engineOptions.Env

C19_Witness ==
    /\ provPc = "done"
    /\ provRet = Nil
    /\ callerSwarmOptions.Env = <<"SWARM_OPT=1">>
    /\ engineOptions.Env = <<>>
    /\ SwarmOptions.Env = <<"SWARM_OPT=1">>
    /\ swarmArg.Env = <<>>

\* C20: a run that fails the validation of the storage driver has nevertheless
\* stored the options of the rejected call in the provisioner, and has done
\* nothing on the remote host.
C20_StoredBeforeValidation ==
    provPc = "done" /\ provSteps[1].err # Nil =>
        /\ SwarmOptions = callerSwarmOptions
        /\ AuthOptions = authOptions
        /\ EngineOptions = engineOptions
        /\ ssh = <<>>

C20_Witness ==
    /\ provPc = "done"
    /\ provRet = <<"Unsupported storage driver:", "devicemapper">>
    /\ EngineOptions.StorageDriver = "devicemapper"
    /\ EngineOptions.Labels = <<"tier=web">>
    /\ AuthOptions.CaCertRemotePath = "/old/ca.pem"
    /\ SwarmOptions.Env = <<"SWARM_OPT=1">>
    /\ ssh = <<>>

-----------------------------------------------------------------------------
(* Properties of GenerateDockerOptions *)

\* the values that follow the pieces `flag` in a unit file, in their order
RECURSIVE ValuesAfter(_, _)
ValuesAfter(flag, text) ==
    IF Len(text) < 2 THEN <<>>
    ELSE IF Head(text) = flag
           THEN <<text[2]>> \o ValuesAfter(flag, Tail(Tail(text)))
           ELSE ValuesAfter(flag, Tail(text))

\* the call rendered the whole template
Rendered(call) == call.parseErr = <<>> /\ call.execErr = <<>>

\* C12: two calls of GenerateDockerOptions with the same port on a provisioner
\* configured with the same engine and auth options produce the same unit file.
C12_RenderDeterministic ==
    \A i, j \in 1..Len(renders) :
        /\ Rendered(renders[i])
        /\ Rendered(renders[j])
        /\ renders[i].dockerPort = renders[j].dockerPort
        => renders[i].result.EngineOptions = renders[j].result.EngineOptions

\* the last call of GenerateDockerOptions
LastRender == renders[Len(renders)]

C14_ProviderLabelOnce ==
    provPc # "idle" /\ Len(renders) >= 1 =>
        EngineOptions.Labels = Append(engineOptions.Labels, "provider=virtualbox")

\* C18: whenever parsing or executing the template fails, GenerateDockerOptions
\* returns an error and no DockerOptions.
C18_TemplateFailureReturned ==
    \A i \in 1..Len(renders) :
        ~Rendered(renders[i]) => renders[i].err # <<>> /\ renders[i].result.isNil

\* On a run's first call the unit file has the caller's labels followed by the
\* provider label, and the other lists as given.
RenderAppendsProviderLabel ==
    Len(renders) >= 1 /\ Rendered(renders[1]) =>
        LET text == renders[1].result.EngineOptions
        IN /\ ValuesAfter("--label ", text)
                = Append(engineOptions.Labels, "provider=virtualbox")
           /\ ValuesAfter("--insecure-registry ", text) = engineOptions.InsecureRegistry
           /\ ValuesAfter("--registry-mirror ", text) = engineOptions.RegistryMirror
           /\ ValuesAfter("--", text) = engineOptions.ArbitraryFlags

\* What the code does instead: every call appends one more provider label.
ProviderLabelPerCall ==
    provPc # "idle" =>
        /\ Len(EngineOptions.Labels) = Len(engineOptions.Labels) + Len(renders)
        /\ \A i \in 1..Len(EngineOptions.Labels) :
             EngineOptions.Labels[i] =
                 IF i <= Len(engineOptions.Labels) THEN engineOptions.Labels[i]
                 ELSE "provider=virtualbox"

-----------------------------------------------------------------------------
(* Properties of two runs *)

Other(i) == IF i = 1 THEN 2 ELSE 1

Holds(xs, x) == \E k \in 1..Len(xs) : xs[k] = x

OtherProviderLabel(i) == IF i = 1 THEN "provider=amazonec2" ELSE "provider=virtualbox"

\* C17: when two runs are started from the same EngineOptions value, the
\* provider label one run appends never shows in the other run's label list
\* or rendered labels, nor in the label list the caller holds.
C17_RunsIsolated ==
    /\ \A i \in Provisioners :
         /\ ~Holds(View(heap, runLabels[i]), OtherProviderLabel(i))
         /\ ~Holds(runText[i], OtherProviderLabel(i))
    /\ \A i \in Provisioners : ~Holds(View(heap, callerLabels), OtherProviderLabel(i))

\* What the code guarantees instead: runs started from a label slice without
\* spare capacity do not see each other's label.
RunsIsolatedWithoutSpare ==
    callerLabels.cap = callerLabels.len =>
        \A i \in Provisioners :
            /\ ~Holds(View(heap, runLabels[i]), OtherProviderLabel(i))
            /\ ~Holds(runText[i], OtherProviderLabel(i))

====
